---------------------------- MODULE Spec2Model ----------------------------
(***************************************************************************)
(* Transaction builder and fee engine of nem-services                      *)
(* (src/src/transactions.ts, src/src/wallet.ts).                           *)
(*                                                                         *)
(* The state is the Transactions instance (wallet.network, wallet.node),   *)
(* the wallet of its NetworkRequests instance, the network clock read by   *)
(* helpers.createNEMTimeStamp, and the last call with its arguments, its   *)
(* local variables and the object it returned.  Every builder method is    *)
(* one action.                                                             *)
(***************************************************************************)
EXTENDS Integers, Sequences, FiniteSets, TLC

VARIABLES
    network,    \* this.wallet.network of the Transactions instance
    node,       \* this.wallet.node of the Transactions instance
    requestNetwork, \* this.networkRequests.wallet.network
    clock,      \* the network time, as helpers.createNEMTimeStamp reads it
    call,       \* the last builder call: [op |-> name, ...arguments]
    locals,     \* local variables of that call that its result does not show
    result      \* the object that call returned

vars == <<network, node, requestNetwork, clock, call, locals, result>>

(***************************************************************************)
(* Bounds of the model.                                                    *)
(***************************************************************************)
MaxClock == 1       \* the clock runs over 0..MaxClock
MaxMods == 3        \* longest signatoryArray
MaxAttach == 2      \* longest attachment list

(***************************************************************************)
(* JavaScript values.  null is NullVal and a non-null value v is Some(v);  *)
(* an array or an object is truthy even when it is empty.                  *)
(***************************************************************************)
NullVal == [isNull |-> TRUE]
Some(v) == [isNull |-> FALSE, val |-> v]
Truthy(o) == ~o.isNull

Max(a, b) == IF a >= b THEN a ELSE b
Min(a, b) == IF a <= b THEN a ELSE b

(***************************************************************************)
(* Numbers beyond 2^31.  A micro-XEM amount, a mosaic quantity or a supply *)
(* is a JavaScript number that may exceed the model checker's integers, so *)
(* it is kept as a sequence of base-10000 limbs, least significant first,  *)
(* without leading zero limbs (<< >> is 0).  The arithmetic is exact; the  *)
(* inputs of the model are chosen away from the values where the float     *)
(* rounding of the source could differ from it.                            *)
(***************************************************************************)
Base == 100 * 100

RECURSIVE BigNorm(_)
BigNorm(a) ==
    IF a = << >> THEN << >>
    ELSE IF a[Len(a)] = 0 THEN BigNorm(SubSeq(a, 1, Len(a) - 1))
    ELSE a

RECURSIVE BigOfInt(_)
BigOfInt(n) ==
    IF n = 0 THEN << >> ELSE <<n % Base>> \o BigOfInt(n \div Base)

RECURSIVE BigAddC(_, _, _)
BigAddC(a, b, c) ==
    IF a = << >> /\ b = << >> THEN (IF c = 0 THEN << >> ELSE <<c>>)
    ELSE LET x == IF a = << >> THEN 0 ELSE Head(a)
             y == IF b = << >> THEN 0 ELSE Head(b)
             s == x + y + c
         IN  <<s % Base>> \o BigAddC(IF a = << >> THEN << >> ELSE Tail(a),
                                     IF b = << >> THEN << >> ELSE Tail(b),
                                     s \div Base)

BigAdd(a, b) == BigNorm(BigAddC(a, b, 0))

RECURSIVE BigMulLimb(_, _, _)
BigMulLimb(a, d, c) ==
    IF a = << >> THEN (IF c = 0 THEN << >> ELSE <<c>>)
    ELSE LET p == Head(a) * d + c
         IN  <<p % Base>> \o BigMulLimb(Tail(a), d, p \div Base)

RECURSIVE BigMul(_, _)
BigMul(a, b) ==
    IF b = << >> \/ a = << >> THEN << >>
    ELSE BigAdd(BigNorm(BigMulLimb(a, Head(b), 0)),
                BigNorm(<<0>> \o BigMul(a, Tail(b))))

RECURSIVE BigCmpFrom(_, _, _)
BigCmpFrom(a, b, i) ==
    IF i = 0 THEN 0
    ELSE IF a[i] < b[i] THEN -1
    ELSE IF a[i] > b[i] THEN 1
    ELSE BigCmpFrom(a, b, i - 1)

\* -1, 0 or 1 as a < b, a = b, a > b
BigCmp(a, b) ==
    IF Len(a) < Len(b) THEN -1
    ELSE IF Len(a) > Len(b) THEN 1
    ELSE BigCmpFrom(a, b, Len(a))

RECURSIVE BigPow10(_)
BigPow10(k) == IF k = 0 THEN <<1>> ELSE BigMulLimb(BigPow10(k - 1), 10, 0)

\* m * 10^e
Num(m, e) == BigMul(BigOfInt(m), BigPow10(e))

\* A quotient num/den of two such numbers, as calcXemEquivalent returns it.
Ratio(n, d) == [num |-> n, den |-> d]

\* Math.ceil(r) >= m, for an integer m >= 0
CeilAtLeast(r, m) ==
    \/ m = 0
    \/ BigCmp(r.num, BigMul(r.den, BigOfInt(m - 1))) = 1

\* Math.ceil(r), saturated at 2^20: the only reader, calcMinFee, is constant
\* from 250000 on.
RECURSIVE CeilSearch(_, _, _)
CeilSearch(r, lo, hi) ==
    \* invariant: Math.ceil(r) >= lo, and hi is the saturation value
    IF lo = hi THEN lo
    ELSE LET mid == (lo + hi + 1) \div 2
         IN  IF CeilAtLeast(r, mid) THEN CeilSearch(r, mid, hi)
             ELSE CeilSearch(r, lo, mid - 1)

CeilSaturation == 1024 * 1024

MathCeil(r) == CeilSearch(r, 0, CeilSaturation)


(***************************************************************************)
(* nem-utils helpers the fee engine calls.                                 *)
(***************************************************************************)

\* helpers.calcMinFee(numNem): Math.floor(Math.max(1, numNem / 10000)), at
\* most 25.  numNem is given by its integer part: the floor of x / 10000 is
\* that of floor(x) / 10000.
calcMinFee(numNem) == Min(25, Max(1, numNem \div 10000))

\* 8999999999, the XEM supply calcXemEquivalent scales by
XemSupply == <<9999, 9999, 89>>

\* helpers.calcXemEquivalent(multiplier, q, sup, divisibility):
\* 8999999999 * q * multiplier / sup / 10^(divisibility + 6), and 0 for a
\* supply of 0.
calcXemEquivalent(multiplier, q, sup, divisibility) ==
    IF sup = << >> THEN Ratio(<< >>, <<1>>)
    ELSE Ratio(BigMul(BigMul(XemSupply, q), multiplier),
               BigMul(sup, BigPow10(divisibility + 6)))

\* helpers.mosaicIdToName(mosaicId)
mosaicIdToName(mosaicId) == mosaicId.namespaceId \o ":" \o mosaicId.name

(***************************************************************************)
(* Math.floor(0.8 * Math.log(x)) for x = num / den, by the thresholds      *)
(* e^(1.25 k), k = 1..30, each written <<m, p>> for m * 10^(p - 7).        *)
(***************************************************************************)
LogThresholds ==
    << <<34903430, 0>>, <<12182494, 1>>, <<42521082, 1>>, <<14841316, 2>>,
       <<51801282, 2>>, <<18080424, 3>>, <<63106881, 3>>, <<22026466, 4>>,
       <<76879920, 4>>, <<26833729, 5>>, <<93658916, 5>>, <<32690174, 6>>,
       <<11409992, 7>>, <<39824784, 7>>, <<13900216, 8>>, <<48516520, 8>>,
       <<16933929, 9>>, <<59105221, 9>>, <<20629749, 10>>, <<72004899, 10>>,
       <<25132179, 11>>, <<87719925, 11>>, <<30617262, 12>>, <<10686475, 13>>,
       <<37299461, 13>>, <<13018791, 14>>, <<45440046, 14>>, <<15860135, 15>>,
       <<55357309, 15>>, <<19321599, 16>> >>

\* e^(1.25 k) * 10^7
LogThreshold(k) == Num(LogThresholds[k][1], LogThresholds[k][2])

\* what Math.floor gives for Math.log(x / 0): larger than every fee
Infinity == 1000000

FloorLog08(num, den) ==
    IF den = << >> THEN Infinity
    ELSE IF BigCmp(num, den) >= 0
    THEN \* x >= 1: the number of thresholds e^(1.25 k) <= x
         Cardinality({k \in 1..Len(LogThresholds) :
             BigCmp(BigMul(num, BigPow10(7)), BigMul(LogThreshold(k), den)) >= 0})
    ELSE \* x < 1: -j for the least j with x >= e^(-1.25 j)
         LET J == {j \in 1..Len(LogThresholds) :
                     BigCmp(BigMul(num, LogThreshold(j)), BigMul(den, BigPow10(7))) >= 0}
         IN  IF J = {} THEN -(Len(LogThresholds) + 1)
             ELSE -(CHOOSE j \in J : \A i \in J : j <= i)

(***************************************************************************)
(* calculateMosaicsFee                                                     *)
(***************************************************************************)

\* maxMosaicQuantity = 9000000000000000
maxMosaicQuantity == Num(9, 15)

\* the bound of a small business mosaic's supply
SmallBusinessSupply == 10000

\* divisibilityProperties.length === 1 ? ~~(divisibilityProperties[0].value) : 0
DivisibilityOf(pair) ==
    LET props == pair.mosaicDefinition.properties
        divisibilityProperties ==
            SelectSeq(props, LAMBDA w : w.name = "divisibility")
    IN  IF Len(divisibilityProperties) = 1
        THEN divisibilityProperties[1].value ELSE 0

\* Mutant of UnknownMosaic: the sum of the fees so far, as for the end of the loop
UnknownMosaicPartialSum(totalFee) == Max(1, totalFee)

\* what the loop returns for an attachment whose name is not in mosaics
UnknownMosaic(totalFee) == -1

\* Mutant of MosaicStep: the fee less the adjustment added as it is, without
\* the floor of 1
MosaicStepNoFloor(multiplier, mosaics, m, st) ==
    LET pair == mosaics[mosaicIdToName(m.mosaicId)]
        divisibility == DivisibilityOf(pair)
        small == BigCmp(pair.supply, BigOfInt(SmallBusinessSupply)) <= 0
                 /\ divisibility = 0
        fee == IF small THEN 1
               ELSE calcMinFee(MathCeil(calcXemEquivalent(multiplier, m.quantity,
                                            pair.supply, divisibility)))
        supplyRelatedAdjustment ==
            IF small THEN st[3]
            ELSE FloorLog08(maxMosaicQuantity,
                            BigMul(pair.supply, BigPow10(divisibility)))
    IN  <<st[1] + fee - supplyRelatedAdjustment, fee, supplyRelatedAdjustment>>

\* One pass of the loop body for attachment m, from the loop-carried
\* <<totalFee, fee, supplyRelatedAdjustment>>.
MosaicStep(multiplier, mosaics, m, st) ==
    LET mosaicDefinitionMetaDataPair == mosaics[mosaicIdToName(m.mosaicId)]
        divisibility == DivisibilityOf(mosaicDefinitionMetaDataPair)
        supply == mosaicDefinitionMetaDataPair.supply
        quantity == m.quantity
        small == BigCmp(supply, BigOfInt(SmallBusinessSupply)) <= 0
                 /\ divisibility = 0
        totalMosaicQuantity == BigMul(supply, BigPow10(divisibility))
        numNem == calcXemEquivalent(multiplier, quantity, supply, divisibility)
        fee == IF small THEN 1 ELSE calcMinFee(MathCeil(numNem))
        supplyRelatedAdjustment ==
            IF small THEN st[3]
            ELSE FloorLog08(maxMosaicQuantity, totalMosaicQuantity)
    IN  <<st[1] + Max(1, fee - supplyRelatedAdjustment), fee, supplyRelatedAdjustment>>

RECURSIVE MosaicsLoop(_, _, _, _, _)
MosaicsLoop(multiplier, mosaics, attachedMosaics, i, st) ==
    IF i > Len(attachedMosaics) THEN Max(1, st[1])
    ELSE IF mosaicIdToName(attachedMosaics[i].mosaicId) \notin DOMAIN mosaics
    THEN UnknownMosaic(st[1])
    ELSE MosaicsLoop(multiplier, mosaics, attachedMosaics, i + 1,
                     MosaicStep(multiplier, mosaics, attachedMosaics[i], st))

calculateMosaicsFee(multiplier, mosaics, attachedMosaics) ==
    MosaicsLoop(multiplier, mosaics, attachedMosaics, 1, <<0, 0, 0>>)

\* The loop-carried <<totalFee, fee, supplyRelatedAdjustment>> after each pass
\* the loop completes; the passes end at an attachment mosaics does not hold
RECURSIVE MosaicsPasses(_, _, _, _, _)
MosaicsPasses(multiplier, mosaics, attachedMosaics, i, st) ==
    IF i > Len(attachedMosaics) THEN << >>
    ELSE IF mosaicIdToName(attachedMosaics[i].mosaicId) \notin DOMAIN mosaics
    THEN << >>
    ELSE LET after == MosaicStep(multiplier, mosaics, attachedMosaics[i], st)
         IN  <<after>> \o MosaicsPasses(multiplier, mosaics, attachedMosaics,
                                        i + 1, after)

(***************************************************************************)
(* nem-utils constants.                                                    *)
(***************************************************************************)
Mainnet == 104      \* Network.data.Mainnet.id
Testnet == -104     \* Network.data.Testnet.id
Mijin == 96         \* Network.data.Mijin.id
NetworkIds == {Mainnet, Testnet, Mijin}

Transfer == 257                 \* TransactionTypes.Transfer, 0x101
ImportanceTransfer == 2049      \* 0x801
MultisigModification == 4097    \* 0x1001
MultisigSignature == 4098       \* 0x1002
MultisigTransaction == 4100     \* 0x1004
ProvisionNamespace == 8193      \* 0x2001
MosaicDefinition == 16385       \* 0x4001
MosaicSupply == 16386           \* 0x4002

(***************************************************************************)
(* 32-bit words.  A word is its high byte and its low 24 bits; a | b       *)
(* yields the signed 32-bit integer of the bitwise or, as in JavaScript.   *)
(***************************************************************************)
TwoTo24 == 4096 * 4096

RECURSIVE BitOr(_, _)
BitOr(a, b) ==
    IF a = 0 THEN b
    ELSE IF b = 0 THEN a
    ELSE 2 * BitOr(a \div 2, b \div 2) + Max(a % 2, b % 2)

ToInt32(hi, lo) ==
    IF hi >= 128 THEN (hi - 256) * TwoTo24 + lo ELSE hi * TwoTo24 + lo

\* (hi * 2^24) | val
OrWord(hi, val) == ToInt32(BitOr(hi, val \div TwoTo24), BitOr(0, val % TwoTo24))

\* The bytes of a signed 32-bit integer
HighByte(v) == IF v < 0 THEN 256 + (v \div TwoTo24) ELSE v \div TwoTo24
Low24(v) == v % TwoTo24

(***************************************************************************)
(* Transactions: the version tag and the common header.                    *)
(***************************************************************************)
CURRENT_NETWORK_VERSION(net, val) ==
    IF net = Mainnet THEN OrWord(104, val)          \* 0x68000000 | val
    ELSE IF net = Testnet THEN OrWord(152, val)     \* 0x98000000 | val
    ELSE OrWord(96, val)                            \* 0x60000000 | val

\* Mutant of Deadline: counted from the time source as the instance last saw
\* it, not from the time stamp of the call
DeadlineFromLastReading(timeStamp, due) == clock + due * 60

\* Mutant of Deadline: the minutes added as if they were seconds
DeadlineInMinutes(timeStamp, due) == timeStamp + due

\* timeStamp + due * 60
Deadline(timeStamp, due) == timeStamp + due * 60

\* Mutant of CREATE_DATA: the default version whatever version is supplied
CREATE_DATA_DefaultVersion(net, txtype, senderPublicKey, timeStamp, due, version) ==
    [type |-> txtype,
     version |-> CURRENT_NETWORK_VERSION(net, 1),
     signer |-> senderPublicKey,
     timeStamp |-> timeStamp,
     deadline |-> Deadline(timeStamp, due)]

CREATE_DATA(net, txtype, senderPublicKey, timeStamp, due, version) ==
    [type |-> txtype,
     version |-> IF version # 0 THEN version ELSE CURRENT_NETWORK_VERSION(net, 1),
     signer |-> senderPublicKey,
     timeStamp |-> timeStamp,
     deadline |-> Deadline(timeStamp, due)]

\* Object.assign(data, custom)
ObjectAssign(data, custom) ==
    [f \in DOMAIN data \cup DOMAIN custom |->
        IF f \in DOMAIN custom THEN custom[f] ELSE data[f]]

\* this.wallet.network === Network.data.Testnet.id ? 60 : 24 * 60
Due(net) == IF net = Testnet THEN 60 ELSE 24 * 60

\* The fee of the multisig wrapper
WrapperFee == 6000000

\* Mutant of _multisigWrapper: the wrapper signed as the entity it wraps
_multisigWrapperInnerSigner(net, senderPublicKey, innerEntity, due, timeStamp) ==
    LET version == CURRENT_NETWORK_VERSION(net, 1)
        data == CREATE_DATA(net, MultisigTransaction, innerEntity.signer,
                            timeStamp, due, version)
        custom == [fee |-> WrapperFee, otherTrans |-> innerEntity]
    IN  ObjectAssign(data, custom)

\* Mutant of _multisigWrapper: the header assigned onto the entity it wraps
_multisigWrapperOntoInner(net, senderPublicKey, innerEntity, due, timeStamp) ==
    LET version == CURRENT_NETWORK_VERSION(net, 1)
        data == CREATE_DATA(net, MultisigTransaction, senderPublicKey,
                            timeStamp, due, version)
        custom == [fee |-> WrapperFee, otherTrans |-> ObjectAssign(innerEntity, data)]
    IN  ObjectAssign(data, custom)

\* timeStamp is what helpers.createNEMTimeStamp() returns inside the wrapper
_multisigWrapper(net, senderPublicKey, innerEntity, due, timeStamp) ==
    LET version == CURRENT_NETWORK_VERSION(net, 1)
        data == CREATE_DATA(net, MultisigTransaction, senderPublicKey,
                            timeStamp, due, version)
        custom == [fee |-> WrapperFee, otherTrans |-> innerEntity]
    IN  ObjectAssign(data, custom)

(***************************************************************************)
(* Keys, addresses and strings.                                            *)
(***************************************************************************)
\* KeyPair.create(helpers.fixPrivateKey(privateKey)).publicKey.toString()
PublicKeyOf(privateKey) ==
    CASE privateKey = "skA" -> "pkA"
      [] privateKey = "skB" -> "pkB"

\* Characters are UTF-16 code units: '2'..'7' are 50..55, 'A'..'Z' 65..90.
\* The first character of an address is the network's: N, T or M.
NetworkChar(net) ==
    IF net = Mainnet THEN 78 ELSE IF net = Testnet THEN 84 ELSE 77

\* The base32 of the hash of a public key, cut to two characters here:
\* pkA -> "D2", pkB -> "A7", pkC -> "DA", pkD -> "2Z".
AddressBody(pubKey) ==
    CASE pubKey = "pkA" -> <<68, 50>>
      [] pubKey = "pkB" -> <<65, 55>>
      [] pubKey = "pkC" -> <<68, 65>>
      [] pubKey = "pkD" -> <<50, 90>>
      [] pubKey = "pkM" -> <<66, 66>>

\* Address.toAddress(publicKey, networkId)
toAddress(pubKey, net) == <<NetworkChar(net)>> \o AddressBody(pubKey)

\* a < b on strings: by code units
RECURSIVE StringLess(_, _)
StringLess(a, b) ==
    IF b = << >> THEN FALSE
    ELSE IF a = << >> THEN TRUE
    ELSE IF Head(a) # Head(b) THEN Head(a) < Head(b)
    ELSE StringLess(Tail(a), Tail(b))

\* The collation weight of a character: digits before letters, and the
\* letters in alphabetical order whatever their case.
CollationWeight(c) ==
    IF c \in 48..57 THEN c - 48
    ELSE IF c \in 65..90 THEN 10 + (c - 65)
    ELSE IF c \in 97..122 THEN 10 + (c - 97)
    ELSE 100 + c

\* a.localeCompare(b): negative, 0 or positive
RECURSIVE localeCompare(_, _)
localeCompare(a, b) ==
    IF a = << >> /\ b = << >> THEN 0
    ELSE IF a = << >> THEN -1
    ELSE IF b = << >> THEN 1
    ELSE IF CollationWeight(Head(a)) < CollationWeight(Head(b)) THEN -1
    ELSE IF CollationWeight(Head(a)) > CollationWeight(Head(b)) THEN 1
    ELSE localeCompare(Tail(a), Tail(b))

\* Array.prototype.sort(cmp): a stable insertion sort
ArraySort(arr, cmp(_, _)) ==
    LET RECURSIVE InsertSorted(_, _)
        InsertSorted(s, x) ==
            IF s = << >> THEN <<x>>
            ELSE IF cmp(x, s[Len(s)]) < 0
            THEN InsertSorted(SubSeq(s, 1, Len(s) - 1), x) \o <<s[Len(s)]>>
            ELSE s \o <<x>>
        RECURSIVE SortPrefix(_)
        SortPrefix(n) ==
            IF n = 0 THEN << >> ELSE InsertSorted(SortPrefix(n - 1), arr[n])
    IN  SortPrefix(Len(arr))

\* s.toUpperCase() for the characters of an address
UpperChar(c) == IF c \in 97..122 THEN c - 32 ELSE c

\* s.toUpperCase().replace(/-/g, "")
RECURSIVE NormalizeAddress(_)
NormalizeAddress(s) ==
    IF s = << >> THEN << >>
    ELSE IF Head(s) = 45 THEN NormalizeAddress(Tail(s))
    ELSE <<UpperChar(Head(s))>> \o NormalizeAddress(Tail(s))

\* s.replace(/-/g, "")
RECURSIVE RemoveDashes(_)
RemoveDashes(s) ==
    IF s = << >> THEN << >>
    ELSE IF Head(s) = 45 THEN RemoveDashes(Tail(s))
    ELSE <<Head(s)>> \o RemoveDashes(Tail(s))

\* Math.floor(r) >= m, for an integer m >= 0
FloorAtLeast(r, m) == BigCmp(r.num, BigMul(r.den, BigOfInt(m))) >= 0

\* Math.floor(r), saturated like MathCeil
RECURSIVE FloorSearch(_, _, _)
FloorSearch(r, lo, hi) ==
    IF lo = hi THEN lo
    ELSE LET mid == (lo + hi + 1) \div 2
         IN  IF FloorAtLeast(r, mid) THEN FloorSearch(r, mid, hi)
             ELSE FloorSearch(r, lo, mid - 1)

MathFloor(r) == FloorSearch(r, 0, CeilSaturation)

\* 1000000: micro-XEM per XEM, and the scale of a fee
Million == 1000000

\* Math.round(tx.amount * 1000000), tx.amount given as <<XEM, millionths>>
AmountMicro(amount) == BigAdd(BigMul(BigOfInt(amount[1]), BigOfInt(Million)),
                              BigOfInt(amount[2]))

\* helpers.prepareMessage(common, tx): the text as a hex string, two
\* characters a byte; a payload is kept as its length
prepareMessage(common, tx) ==
    [type |-> 1, payload |-> [length |-> 2 * tx.message.length]]

(***************************************************************************)
(* The arguments the model calls the builder with.                         *)
(***************************************************************************)
SeqsUpTo(S, n) == UNION {[1..k -> S] : k \in 0..n}

Commons == {[privateKey |-> "skA"], [privateKey |-> "skB"]}

MultisigAccount == [publicKey |-> "pkM"]

\* "ta-b-c2": a recipient as the user types it
Recipients == {<<116, 97, 45, 98, 45, 99, 50>>}

\* tx.amount in XEM: 1.5, 20000, 300000
Amounts == {<<1, 500000>>, <<20000, 0>>, <<300000, 0>>}

\* tx.message: a text of 0, 1, 32 or 64 bytes
Messages == {[length |-> n] : n \in {0, 1, 32, 64}}

Property(n, v) == [name |-> n, value |-> v]

MetaDataPair(supply, props) ==
    [supply |-> supply, mosaicDefinition |-> [properties |-> props]]

\* nem:xem (supply 8999999999, divisibility 6), a small business mosaic, a
\* mosaic of supply 9000000 and divisibility 3, and one whose definition
\* carries no divisibility property
FullRegistry ==
    [n \in {"nem:xem", "biz:coin", "big:tok", "old:raw"} |->
        CASE n = "nem:xem" ->
               MetaDataPair(XemSupply, <<Property("divisibility", 6),
                                         Property("initialSupply", 0)>>)
          [] n = "biz:coin" ->
               MetaDataPair(Num(5000, 0), <<Property("divisibility", 0)>>)
          [] n = "big:tok" ->
               MetaDataPair(Num(9, 6), <<Property("divisibility", 3)>>)
          [] n = "old:raw" ->
               MetaDataPair(Num(2, 4), << >>)]

XemRegistry == [n \in {"nem:xem"} |-> FullRegistry[n]]

Registries == {FullRegistry, XemRegistry}

Attachment(ns, n, q) ==
    [mosaicId |-> [namespaceId |-> ns, name |-> n], quantity |-> q]

\* ghost:coin is in no registry
AttachmentChoices ==
    {Attachment("nem", "xem", Num(15, 10)),
     Attachment("biz", "coin", Num(10, 0)),
     Attachment("big", "tok", Num(3, 8)),
     Attachment("old", "raw", Num(7, 0)),
     Attachment("ghost", "coin", Num(5, 0))}

\* tx.mosaics: null, or a list of attachments (the empty list included)
MosaicsChoices ==
    {NullVal} \cup {Some(l) : l \in SeqsUpTo(AttachmentChoices, MaxAttach)}

\* calculateMosaicsFee, evaluated once for each call the model makes (@@ makes
\* the table an explicit function)
MosaicsFeeOf ==
    [amount \in {AmountMicro(a) : a \in Amounts},
     mosaicsMetaData \in Registries,
     attachedMosaics \in SeqsUpTo(AttachmentChoices, MaxAttach) |->
        calculateMosaicsFee(amount, mosaicsMetaData, attachedMosaics)] @@ << >>

\* The registry of a direct calculateMosaicsFee call: FullRegistry and two
\* more mosaics, one of supply 90000000000 and divisibility 6 (its total
\* quantity is above maxMosaicQuantity) and one of supply 0 and divisibility 3
FeeRegistry ==
    [n \in DOMAIN FullRegistry \cup {"huge:tok", "nil:tok"} |->
        IF n \in DOMAIN FullRegistry THEN FullRegistry[n]
        ELSE IF n = "huge:tok"
        THEN MetaDataPair(Num(9, 10), <<Property("divisibility", 6)>>)
        ELSE MetaDataPair(<< >>, <<Property("divisibility", 3)>>)]

\* The attachments of a direct call: a small business mosaic, mosaics of
\* adjustment 11, -2 and Infinity, and one the registry does not hold
FeeAttachmentChoices ==
    {Attachment("biz", "coin", Num(10, 0)),
     Attachment("big", "tok", Num(3, 8)),
     Attachment("huge", "tok", Num(4, 3)),
     Attachment("nil", "tok", Num(1, 0)),
     Attachment("ghost", "coin", Num(5, 0))}

\* The multipliers of a direct call: 1.5 and 300000 XEM in micro-XEM
FeeMultipliers == {AmountMicro(<<1, 500000>>), AmountMicro(<<300000, 0>>)}

\* calculateMosaicsFee and the passes of its loop over FeeRegistry, evaluated
\* once for each direct call the model makes
FeeCallOf ==
    [multiplier \in FeeMultipliers,
     attachedMosaics \in SeqsUpTo(FeeAttachmentChoices, MaxAttach) |->
        [value |-> calculateMosaicsFee(multiplier, FeeRegistry, attachedMosaics),
         passes |-> MosaicsPasses(multiplier, FeeRegistry, attachedMosaics,
                                  1, <<0, 0, 0>>)]] @@ << >>

(***************************************************************************)
(* Transfer                                                                *)
(***************************************************************************)

\* Mutant of MsgFee: the hex characters counted as bytes
MsgFeeOfBytes(length) ==
    IF length # 0 THEN Max(1, (length \div 32) + 1) ELSE 0

\* message.payload.length ?
\*   Math.max(1, Math.floor((message.payload.length / 2) / 32) + 1) : 0
MsgFee(length) ==
    IF length # 0 THEN Max(1, ((length \div 2) \div 32) + 1) ELSE 0

\* mosaics ? this.CURRENT_NETWORK_VERSION(2) : this.CURRENT_NETWORK_VERSION(1)
TransferVersion(net, mosaics) ==
    IF Truthy(mosaics) THEN CURRENT_NETWORK_VERSION(net, 2)
    ELSE CURRENT_NETWORK_VERSION(net, 1)

\* Mutant of TransferFee: the minimum fee of the amount in micro-XEM
TransferFeeOfMicro(amount, mosaics, mosaicsFee) ==
    IF Truthy(mosaics) THEN mosaicsFee.val
    ELSE calcMinFee(MathFloor(Ratio(amount, <<1>>)))

\* mosaics ? mosaicsFee : helpers.calcMinFee(amount / 1000000)
TransferFee(amount, mosaics, mosaicsFee) ==
    IF Truthy(mosaics) THEN mosaicsFee.val
    ELSE calcMinFee(MathFloor(Ratio(amount, BigOfInt(Million))))

_constructTransfer(net, senderPublicKey, recipientCompressedKey, amount, message, due, mosaics, mosaicsFee, timeStamp) ==
    LET version == TransferVersion(net, mosaics)
        data == CREATE_DATA(net, Transfer, senderPublicKey, timeStamp, due, version)
        msgFee == MsgFee(message.payload.length)
        fee == TransferFee(amount, mosaics, mosaicsFee)
        totalFee == (msgFee + fee) * Million
        custom == [recipient |-> NormalizeAddress(recipientCompressedKey),
                   amount |-> amount,
                   fee |-> totalFee,
                   message |-> message,
                   mosaics |-> mosaics]
    IN  ObjectAssign(data, custom)

\* !tx.mosaics ? null : this.calculateMosaicsFee(amount, mosaicsMetaData, mosaics)
\* (the call is looked up in MosaicsFeeOf, its table over the model's inputs)
TransferMosaicsFee(amount, mosaicsMetaData, mosaics) ==
    IF ~Truthy(mosaics) THEN NullVal
    ELSE Some(MosaicsFeeOf[amount, mosaicsMetaData, mosaics.val])

\* t1, t2: what helpers.createNEMTimeStamp() returns in _constructTransfer
\* and in _multisigWrapper
prepareTransfer(net, common, tx, mosaicsMetaData, t1, t2) ==
    LET kp == PublicKeyOf(common.privateKey)
        actualSender == IF tx.isMultisig THEN tx.multisigAccount.publicKey ELSE kp
        recipientCompressedKey == tx.recipient
        amount == AmountMicro(tx.amount)
        message == prepareMessage(common, tx)
        due == Due(net)
        mosaics == tx.mosaics
        mosaicsFee == TransferMosaicsFee(amount, mosaicsMetaData, mosaics)
        entity == _constructTransfer(net, actualSender, recipientCompressedKey,
                                     amount, message, due, mosaics, mosaicsFee, t1)
    IN  IF tx.isMultisig THEN _multisigWrapper(net, kp, entity, due, t2)
        ELSE entity

prepareApostilleTransfer(net, common, tx, t1, t2) ==
    LET kp == PublicKeyOf(common.privateKey)
        actualSender == IF tx.isMultisig THEN tx.multisigAccount.publicKey ELSE kp
        recipientCompressedKey == tx.recipient
        amount == AmountMicro(tx.amount)
        message == [type |-> 1, payload |-> [length |-> tx.message.length]]
        due == Due(net)
        mosaics == NullVal
        mosaicsFee == NullVal
        entity == _constructTransfer(net, actualSender, recipientCompressedKey,
                                     amount, message, due, mosaics, mosaicsFee, t1)
    IN  IF tx.isMultisig THEN _multisigWrapper(net, kp, entity, due, t2)
        ELSE entity

(***************************************************************************)
(* Multisig aggregate modification                                         *)
(***************************************************************************)

\* The comparator of _constructAggregate's sort
CompareByAddress(net, a, b) ==
    IF StringLess(toAddress(a.cosignatoryAccount, net),
                  toAddress(b.cosignatoryAccount, net)) THEN -1
    ELSE IF StringLess(toAddress(b.cosignatoryAccount, net),
                       toAddress(a.cosignatoryAccount, net)) THEN 1
    ELSE 0

\* Mutant of CompareByTypeThenAddress: the types alone
CompareByTypeOnly(net, a, b) == a.modificationType - b.modificationType

\* The comparator of _constructAggregateModifications' sort:
\* a.modificationType - b.modificationType || address.localeCompare(address)
CompareByTypeThenAddress(net, a, b) ==
    IF a.modificationType - b.modificationType # 0
    THEN a.modificationType - b.modificationType
    ELSE localeCompare(toAddress(a.cosignatoryAccount, net),
                       toAddress(b.cosignatoryAccount, net))

\* Mutant of SortAggregateModifications: the list as it was pushed
SortNothing(net, modifications) == modifications

\* if (custom.modifications.length > 1) custom.modifications.sort(...)
SortAggregate(net, modifications) ==
    IF Len(modifications) > 1
    THEN ArraySort(modifications, LAMBDA a, b : CompareByAddress(net, a, b))
    ELSE modifications

\* Mutant of SortAggregateModifications: the sorted list without the entries
\* that repeat the one before them
SortAggregateModificationsDistinct(net, modifications) ==
    LET sorted == IF Len(modifications) > 1
                  THEN ArraySort(modifications,
                                 LAMBDA a, b : CompareByTypeThenAddress(net, a, b))
                  ELSE modifications
        keep == {i \in 1..Len(sorted) : i = 1 \/ sorted[i] # sorted[i - 1]}
    IN  [k \in 1..Cardinality(keep) |->
            sorted[CHOOSE i \in keep : Cardinality({j \in keep : j < i}) = k - 1]]

SortAggregateModifications(net, modifications) ==
    IF Len(modifications) > 1
    THEN ArraySort(modifications, LAMBDA a, b : CompareByTypeThenAddress(net, a, b))
    ELSE modifications

_constructAggregate(net, tx, signatoryArray, timeStamp) ==
    LET version == CURRENT_NETWORK_VERSION(net, 2)
        due == Due(net)
        data == CREATE_DATA(net, MultisigModification, tx.multisigPubKey,
                            timeStamp, due, version)
        totalFee == (10 + 6 * Len(signatoryArray) + 6) * Million
        modifications ==
            [i \in 1..Len(signatoryArray) |->
                [modificationType |-> 1,
                 cosignatoryAccount |-> signatoryArray[i].pubKey]]
        custom == [fee |-> totalFee,
                   modifications |-> SortAggregate(net, modifications),
                   minCosignatories |-> [relativeChange |-> tx.minCosigs]]
    IN  ObjectAssign(data, custom)

\* tx.minCosigs === null || tx.minCosigs === 0
NoMinCosigsChange(tx) == tx.minCosigs.isNull \/ tx.minCosigs.val = 0

\* Mutant of _constructAggregateModifications: the fee of the modifications
\* alone, also when the entity carries minCosignatories
_constructAggregateModificationsFlatFee(net, senderPublicKey, tx, signatoryArray, t1, t2) ==
    LET due == Due(net)
        version == IF NoMinCosigsChange(tx) THEN CURRENT_NETWORK_VERSION(net, 1)
                   ELSE CURRENT_NETWORK_VERSION(net, 2)
        data == CREATE_DATA(net, MultisigModification, tx.multisigPubKey,
                            t1, due, version)
        modifications ==
            [i \in 1..Len(signatoryArray) |->
                [modificationType |-> signatoryArray[i].type,
                 cosignatoryAccount |-> signatoryArray[i].pubKey]]
        sorted == SortAggregateModifications(net, modifications)
        custom ==
            IF NoMinCosigsChange(tx)
            THEN [fee |-> (10 + 6 * Len(signatoryArray)) * Million,
                  modifications |-> sorted]
            ELSE [fee |-> (10 + 6 * Len(signatoryArray)) * Million,
                  modifications |-> sorted,
                  minCosignatories |-> [relativeChange |-> tx.minCosigs]]
        entity == ObjectAssign(data, custom)
    IN  _multisigWrapper(net, senderPublicKey, entity, due, t2)

\* t1, t2: the time stamps read for the entity and for the wrapper
_constructAggregateModifications(net, senderPublicKey, tx, signatoryArray, t1, t2) ==
    LET due == Due(net)
        version == IF NoMinCosigsChange(tx) THEN CURRENT_NETWORK_VERSION(net, 1)
                   ELSE CURRENT_NETWORK_VERSION(net, 2)
        data == CREATE_DATA(net, MultisigModification, tx.multisigPubKey,
                            t1, due, version)
        modifications ==
            [i \in 1..Len(signatoryArray) |->
                [modificationType |-> signatoryArray[i].type,
                 cosignatoryAccount |-> signatoryArray[i].pubKey]]
        sorted == SortAggregateModifications(net, modifications)
        custom ==
            IF NoMinCosigsChange(tx)
            THEN [fee |-> (10 + 6 * Len(signatoryArray)) * Million,
                  modifications |-> sorted]
            ELSE [fee |-> (10 + 6 * Len(signatoryArray) + 6) * Million,
                  modifications |-> sorted,
                  minCosignatories |-> [relativeChange |-> tx.minCosigs]]
        entity == ObjectAssign(data, custom)
    IN  _multisigWrapper(net, senderPublicKey, entity, due, t2)

(***************************************************************************)
(* Namespace, mosaic definition, mosaic supply, importance transfer,       *)
(* multisig signature                                                      *)
(***************************************************************************)

\* 20 * 1000000, the fee of a namespace, a mosaic definition, a supply change
StructuralFee == 20 * Million

_constructNamespace(net, senderPublicKey, rentalFeeSink, rentalFee, namespaceParent, namespaceName, due, timeStamp) ==
    LET version == CURRENT_NETWORK_VERSION(net, 1)
        data == CREATE_DATA(net, ProvisionNamespace, senderPublicKey,
                            timeStamp, due, version)
        custom == [rentalFeeSink |-> NormalizeAddress(rentalFeeSink),
                   rentalFee |-> rentalFee,
                   parent |-> namespaceParent,
                   newPart |-> namespaceName,
                   fee |-> StructuralFee]
    IN  ObjectAssign(data, custom)

prepareNamespace(net, common, tx, t1, t2) ==
    LET kp == PublicKeyOf(common.privateKey)
        actualSender == IF tx.isMultisig THEN tx.multisigAccount.publicKey ELSE kp
        rentalFeeSink == tx.rentalFeeSink
        rentalFee == IF Truthy(tx.namespaceParent)
                     THEN BigMul(BigOfInt(200), BigOfInt(Million))
                     ELSE BigMul(BigOfInt(5000), BigOfInt(Million))
        namespaceParent == IF Truthy(tx.namespaceParent)
                           THEN Some(tx.namespaceParent.val.fqn) ELSE NullVal
        namespaceName == tx.namespaceName
        due == Due(net)
        entity == _constructNamespace(net, actualSender, rentalFeeSink, rentalFee,
                                      namespaceParent, namespaceName, due, t1)
    IN  IF tx.isMultisig THEN _multisigWrapper(net, kp, entity, due, t2)
        ELSE entity

_constructMosaicDefinition(net, senderPublicKey, rentalFeeSink, rentalFee, namespaceParent, mosaicName, mosaicDescription, mosaicProperties, levy, due, timeStamp) ==
    LET version == CURRENT_NETWORK_VERSION(net, 1)
        data == CREATE_DATA(net, MosaicDefinition, senderPublicKey,
                            timeStamp, due, version)
        levyData == IF Truthy(levy)
                    THEN Some([type |-> levy.val.feeType,
                               recipient |-> NormalizeAddress(levy.val.address),
                               mosaicId |-> levy.val.mosaic.val,
                               fee |-> levy.val.fee])
                    ELSE NullVal
        custom == [creationFeeSink |-> RemoveDashes(rentalFeeSink),
                   creationFee |-> rentalFee,
                   mosaicDefinition |->
                       [creator |-> senderPublicKey,
                        id |-> [namespaceId |-> namespaceParent, name |-> mosaicName],
                        description |-> mosaicDescription,
                        \* Object.keys(mosaicProperties).map(...): the keys in
                        \* insertion order, each value as a string
                        properties |->
                            [i \in 1..Len(mosaicProperties) |->
                                [name |-> mosaicProperties[i][1],
                                 value |-> ToString(mosaicProperties[i][2])]],
                        levy |-> levyData],
                   fee |-> StructuralFee]
    IN  ObjectAssign(data, custom)

prepareMosaicDefinition(net, common, tx, t1, t2) ==
    LET kp == PublicKeyOf(common.privateKey)
        actualSender == IF tx.isMultisig THEN tx.multisigAccount.publicKey ELSE kp
        rentalFeeSink == tx.mosaicFeeSink
        rentalFee == 500 * Million
        namespaceParent == tx.namespaceParent.fqn
        mosaicName == tx.mosaicName
        mosaicDescription == tx.mosaicDescription
        mosaicProperties == tx.properties
        levy == IF Truthy(tx.levy.mosaic) THEN Some(tx.levy) ELSE NullVal
        due == Due(net)
        entity == _constructMosaicDefinition(net, actualSender, rentalFeeSink,
                      rentalFee, namespaceParent, mosaicName, mosaicDescription,
                      mosaicProperties, levy, due, t1)
    IN  IF tx.isMultisig THEN _multisigWrapper(net, kp, entity, due, t2)
        ELSE entity

_constructMosaicSupply(net, senderPublicKey, mosaicId, supplyType, delta, due, timeStamp) ==
    LET version == CURRENT_NETWORK_VERSION(net, 1)
        data == CREATE_DATA(net, MosaicSupply, senderPublicKey,
                            timeStamp, due, version)
        custom == [mosaicId |-> mosaicId,
                   supplyType |-> supplyType,
                   delta |-> delta,
                   fee |-> StructuralFee]
    IN  ObjectAssign(data, custom)

prepareMosaicSupply(net, common, tx, t1, t2) ==
    LET kp == PublicKeyOf(common.privateKey)
        actualSender == IF tx.isMultisig THEN tx.multisigAccount.publicKey ELSE kp
        due == Due(net)
        entity == _constructMosaicSupply(net, actualSender, tx.mosaic,
                                         tx.supplyType, tx.delta, due, t1)
    IN  IF tx.isMultisig THEN _multisigWrapper(net, kp, entity, due, t2)
        ELSE entity

\* 6000000, the fee of an importance transfer
ImportanceFee == 6000000

_constructImportanceTransfer(net, senderPublicKey, recipientKey, mode, due, timeStamp) ==
    LET version == CURRENT_NETWORK_VERSION(net, 1)
        data == CREATE_DATA(net, ImportanceTransfer, senderPublicKey,
                            timeStamp, due, version)
        custom == [remoteAccount |-> recipientKey,
                   mode |-> mode,
                   fee |-> ImportanceFee]
    IN  ObjectAssign(data, custom)

prepareImportanceTransfer(net, common, tx, t1, t2) ==
    LET kp == PublicKeyOf(common.privateKey)
        actualSender == IF tx.isMultisig THEN tx.multisigAccount.publicKey ELSE kp
        due == Due(net)
        entity == _constructImportanceTransfer(net, actualSender,
                                               tx.remoteAccount, tx.mode, due, t1)
    IN  IF tx.isMultisig THEN _multisigWrapper(net, kp, entity, due, t2)
        ELSE entity

_constructSignature(net, senderPublicKey, otherAccount, otherHash, due, timeStamp) ==
    LET version == CURRENT_NETWORK_VERSION(net, 1)
        data == CREATE_DATA(net, MultisigSignature, senderPublicKey,
                            timeStamp, due, version)
        totalFee == (2 * 3) * Million
        custom == [otherHash |-> [data |-> otherHash],
                   otherAccount |-> otherAccount,
                   fee |-> totalFee]
    IN  ObjectAssign(data, custom)

\* The entity prepareSignature builds, serializes, signs and announces
prepareSignature(net, common, tx, t1) ==
    LET kp == PublicKeyOf(common.privateKey)
        actualSender == kp
        otherAccount == tx.multisigAccountAddress
        otherHash == tx.hash
        due == Due(net)
    IN  _constructSignature(net, actualSender, otherAccount, otherHash, due, t1)

(***************************************************************************)
(* The arguments the model calls the builder with, continued.              *)
(***************************************************************************)
TransferTxs ==
    [isMultisig : BOOLEAN, multisigAccount : {MultisigAccount},
     recipient : Recipients, amount : Amounts, message : Messages,
     mosaics : MosaicsChoices]

\* An apostille: tx.message is the hex string of a file hash
ApostilleTxs ==
    [isMultisig : BOOLEAN, multisigAccount : {MultisigAccount},
     recipient : Recipients, amount : {<<0, 0>>, <<1, 0>>},
     message : {[length |-> n] : n \in {0, 63, 64, 74}}]

CosignatoryKeys == {"pkA", "pkC", "pkD"}

SignatoryArrays == SeqsUpTo([type : {1, 2}, pubKey : CosignatoryKeys], MaxMods)

AggregateTxs ==
    [multisigPubKey : {"pkM"}, minCosigs : {NullVal, Some(0), Some(1)}]

NamespaceTxs ==
    [isMultisig : BOOLEAN, multisigAccount : {MultisigAccount},
     rentalFeeSink : Recipients,
     namespaceParent : {NullVal, Some([fqn |-> "nem"])},
     namespaceName : {"", "alice"}]

MosaicDefinitionTxs ==
    [isMultisig : BOOLEAN, multisigAccount : {MultisigAccount},
     mosaicFeeSink : Recipients,
     namespaceParent : {[fqn |-> "nem"]},
     mosaicName : {"", "coin"},
     mosaicDescription : {"a coin"},
     properties : {<<<<"divisibility", 3>>, <<"initialSupply", 1000>>>>},
     levy : {[mosaic |-> NullVal],
             [mosaic |-> Some([namespaceId |-> "nem", name |-> "xem"]),
              feeType |-> 1, address |-> <<116, 97, 45, 98>>, fee |-> 5]}]

MosaicSupplyTxs ==
    [isMultisig : BOOLEAN, multisigAccount : {MultisigAccount},
     mosaic : {[namespaceId |-> "biz", name |-> "coin"]},
     supplyType : {1, 2}, delta : {1, 100}]

ImportanceTxs ==
    [isMultisig : BOOLEAN, multisigAccount : {MultisigAccount},
     remoteAccount : {"pkC"}, mode : {1, 2}]

SignatureTxs ==
    [multisigAccountAddress : {<<84, 66, 66>>}, hash : {"h1", "h2"}]

(***************************************************************************)
(* NetworkRequests: the announce request.                                  *)
(***************************************************************************)
\* AppConstants.defaultNisPort and AppConstants.defaultMijinPort
DefaultNisPort == "defaultNisPort"
DefaultMijinPort == "defaultMijinPort"

\* net is this.wallet.network of the NetworkRequests instance
getPort(net) == IF net = Mijin THEN DefaultMijinPort ELSE DefaultNisPort

\* helpers.getHostname(this.wallet.node): the host part of the node's address
getHostname(address) == [hostnameOf |-> address]

\* Serialization.serializeTransaction(entity) as hex, and kp.sign of it
RequestAnnounce(entity, common) ==
    [data |-> [serialized |-> entity],
     signature |-> [signedWith |-> common.privateKey]]

\* The request that fetch is given: "http://" + host + ":" + getPort() +
\* "/transaction/announce", POST, the object as JSON
announceTransaction(net, host, obj) ==
    [url |-> [host |-> host, port |-> getPort(net), path |-> "/transaction/announce"],
     method |-> "POST",
     body |-> obj]

\* net is wallet.network of this.networkRequests, address is wallet.node of
\* the Transactions instance
serializeAndAnnounceTransaction(net, address, entity, common) ==
    announceTransaction(net, getHostname(address), RequestAnnounce(entity, common))

\* Entities a caller sends: what prepareImportanceTransfer and
\* prepareMosaicSupply return on the network net at the time t
BuiltEntities(net, t) ==
    {prepareImportanceTransfer(net, common, tx, t, t) :
        common \in Commons, tx \in ImportanceTxs}
    \cup {prepareMosaicSupply(net, common, tx, t, t) :
        common \in Commons, tx \in MosaicSupplyTxs}

(***************************************************************************)
(* The state machine.                                                      *)
(***************************************************************************)
Idle == [op |-> "idle"]
NoResult == [type |-> 0]

\* AppConstants.defaultNetwork, the network of every new Wallet.  The wallet
\* pairs it with Nodes.defaultMainnetNode: the main network
DefaultNetwork == Mainnet

\* Nodes.defaultMainnetNode
DefaultNode == "defaultMainnetNode"

\* new Wallet()
Wallet == [network |-> DefaultNetwork, node |-> DefaultNode]

\* new Transactions(): this.wallet is a new Wallet, and this.networkRequests
\* a new NetworkRequests, whose constructor makes a Wallet of its own
Init ==
    /\ network = Wallet.network
    /\ node = Wallet.node
    /\ requestNetwork = Wallet.network
    /\ clock = 0
    /\ call = Idle
    /\ locals = Idle
    /\ result = NoResult

\* The values helpers.createNEMTimeStamp() returns to one call: t1 for the
\* entity and, when it is wrapped, t2 >= t1 for the wrapper
Reads(wrapped, t1, t2) ==
    /\ t1 \in clock..MaxClock
    /\ t2 \in t1..MaxClock
    /\ ~wrapped => t2 = t1

\* The caller assigns wallet.network of the Transactions instance
SetNetwork ==
    /\ call.op = "idle"
    /\ \E n \in NetworkIds \ {network} : network' = n
    /\ UNCHANGED <<node, requestNetwork, clock, call, locals, result>>

PrepareTransfer ==
    /\ call.op = "idle"
    /\ \E common \in Commons, tx \in TransferTxs, mosaicsMetaData \in Registries :
       \E t1 \in clock..MaxClock, t2 \in clock..MaxClock :
          /\ Reads(tx.isMultisig, t1, t2)
          /\ call' = [op |-> "prepareTransfer", common |-> common, tx |-> tx,
                      mosaicsMetaData |-> mosaicsMetaData]
          /\ locals' = [inputs |-> [common |-> common, tx |-> tx, mosaicsMetaData |-> mosaicsMetaData],
                        due |-> Due(network),
                        msgFee |-> MsgFee(prepareMessage(common, tx).payload.length),
                        mosaicsFee |-> TransferMosaicsFee(AmountMicro(tx.amount),
                                           mosaicsMetaData, tx.mosaics)]
          /\ result' = prepareTransfer(network, common, tx, mosaicsMetaData, t1, t2)
          /\ clock' = t2
    /\ UNCHANGED <<network, node, requestNetwork>>

PrepareApostilleTransfer ==
    /\ call.op = "idle"
    /\ \E common \in Commons, tx \in ApostilleTxs :
       \E t1 \in clock..MaxClock, t2 \in clock..MaxClock :
          /\ Reads(tx.isMultisig, t1, t2)
          /\ call' = [op |-> "prepareApostilleTransfer", common |-> common, tx |-> tx]
          /\ locals' = [inputs |-> [common |-> common, tx |-> tx],
                        due |-> Due(network),
                        msgFee |-> MsgFee(tx.message.length),
                        mosaicsFee |-> NullVal]
          /\ result' = prepareApostilleTransfer(network, common, tx, t1, t2)
          /\ clock' = t2
    /\ UNCHANGED <<network, node, requestNetwork>>

ConstructAggregate ==
    /\ call.op = "idle"
    /\ \E tx \in AggregateTxs, signatoryArray \in SignatoryArrays :
       \E t1 \in clock..MaxClock :
          /\ call' = [op |-> "_constructAggregate", tx |-> tx,
                      signatoryArray |-> signatoryArray]
          /\ locals' = [inputs |-> [tx |-> tx, signatoryArray |-> signatoryArray],
                        due |-> Due(network)]
          /\ result' = _constructAggregate(network, tx, signatoryArray, t1)
          /\ clock' = t1
    /\ UNCHANGED <<network, node, requestNetwork>>

ConstructAggregateModifications ==
    /\ call.op = "idle"
    /\ \E senderPublicKey \in {"pkA", "pkB"}, tx \in AggregateTxs,
          signatoryArray \in SignatoryArrays :
       \E t1 \in clock..MaxClock, t2 \in clock..MaxClock :
          /\ Reads(TRUE, t1, t2)
          /\ call' = [op |-> "_constructAggregateModifications",
                      senderPublicKey |-> senderPublicKey, tx |-> tx,
                      signatoryArray |-> signatoryArray]
          /\ locals' = [inputs |-> [senderPublicKey |-> senderPublicKey, tx |-> tx, signatoryArray |-> signatoryArray],
                        due |-> Due(network)]
          /\ result' = _constructAggregateModifications(network, senderPublicKey,
                           tx, signatoryArray, t1, t2)
          /\ clock' = t2
    /\ UNCHANGED <<network, node, requestNetwork>>

PrepareNamespace ==
    /\ call.op = "idle"
    /\ \E common \in Commons, tx \in NamespaceTxs :
       \E t1 \in clock..MaxClock, t2 \in clock..MaxClock :
          /\ Reads(tx.isMultisig, t1, t2)
          /\ call' = [op |-> "prepareNamespace", common |-> common, tx |-> tx]
          /\ locals' = [inputs |-> [common |-> common, tx |-> tx],
                        due |-> Due(network)]
          /\ result' = prepareNamespace(network, common, tx, t1, t2)
          /\ clock' = t2
    /\ UNCHANGED <<network, node, requestNetwork>>

PrepareMosaicDefinition ==
    /\ call.op = "idle"
    /\ \E common \in Commons, tx \in MosaicDefinitionTxs :
       \E t1 \in clock..MaxClock, t2 \in clock..MaxClock :
          /\ Reads(tx.isMultisig, t1, t2)
          /\ call' = [op |-> "prepareMosaicDefinition", common |-> common, tx |-> tx]
          /\ locals' = [inputs |-> [common |-> common, tx |-> tx],
                        due |-> Due(network)]
          /\ result' = prepareMosaicDefinition(network, common, tx, t1, t2)
          /\ clock' = t2
    /\ UNCHANGED <<network, node, requestNetwork>>

PrepareMosaicSupply ==
    /\ call.op = "idle"
    /\ \E common \in Commons, tx \in MosaicSupplyTxs :
       \E t1 \in clock..MaxClock, t2 \in clock..MaxClock :
          /\ Reads(tx.isMultisig, t1, t2)
          /\ call' = [op |-> "prepareMosaicSupply", common |-> common, tx |-> tx]
          /\ locals' = [inputs |-> [common |-> common, tx |-> tx],
                        due |-> Due(network)]
          /\ result' = prepareMosaicSupply(network, common, tx, t1, t2)
          /\ clock' = t2
    /\ UNCHANGED <<network, node, requestNetwork>>

PrepareImportanceTransfer ==
    /\ call.op = "idle"
    /\ \E common \in Commons, tx \in ImportanceTxs :
       \E t1 \in clock..MaxClock, t2 \in clock..MaxClock :
          /\ Reads(tx.isMultisig, t1, t2)
          /\ call' = [op |-> "prepareImportanceTransfer", common |-> common, tx |-> tx]
          /\ locals' = [inputs |-> [common |-> common, tx |-> tx],
                        due |-> Due(network)]
          /\ result' = prepareImportanceTransfer(network, common, tx, t1, t2)
          /\ clock' = t2
    /\ UNCHANGED <<network, node, requestNetwork>>

PrepareSignature ==
    /\ call.op = "idle"
    /\ \E common \in Commons, tx \in SignatureTxs :
       \E t1 \in clock..MaxClock :
          /\ call' = [op |-> "prepareSignature", common |-> common, tx |-> tx]
          /\ locals' = [inputs |-> [common |-> common, tx |-> tx],
                        due |-> Due(network),
                        request |-> serializeAndAnnounceTransaction(requestNetwork,
                                        node, prepareSignature(network, common, tx, t1),
                                        common)]
          /\ result' = prepareSignature(network, common, tx, t1)
          /\ clock' = t1
    /\ UNCHANGED <<network, node, requestNetwork>>

\* The caller sends an entity it built on the wallet's network; result is
\* the request handed to fetch
SerializeAndAnnounceTransaction ==
    /\ call.op = "idle"
    /\ \E common \in Commons, entity \in BuiltEntities(network, clock) :
          /\ call' = [op |-> "serializeAndAnnounceTransaction",
                      entity |-> entity, common |-> common]
          /\ locals' = [inputs |-> [entity |-> entity, common |-> common],
                        host |-> getHostname(node),
                        port |-> getPort(requestNetwork)]
          /\ result' = serializeAndAnnounceTransaction(requestNetwork, node,
                                                       entity, common)
    /\ UNCHANGED <<network, node, requestNetwork, clock>>

\* calculateMosaicsFee called on its own; locals keeps what each pass of the
\* loop left in totalFee, fee and supplyRelatedAdjustment
CalculateMosaicsFee ==
    /\ call.op = "idle"
    /\ \E multiplier \in FeeMultipliers,
          attachedMosaics \in SeqsUpTo(FeeAttachmentChoices, MaxAttach) :
          /\ call' = [op |-> "calculateMosaicsFee", multiplier |-> multiplier,
                      mosaics |-> FeeRegistry, attachedMosaics |-> attachedMosaics]
          /\ locals' = [passes |-> FeeCallOf[multiplier, attachedMosaics].passes]
          /\ result' = [type |-> 0,
                        value |-> FeeCallOf[multiplier, attachedMosaics].value]
    /\ UNCHANGED <<network, node, requestNetwork, clock>>

\* Mutant of Return: the locals of the call outlive it
ReturnKeepingLocals ==
    /\ call.op # "idle"
    /\ call' = Idle
    /\ result' = NoResult
    /\ UNCHANGED <<network, node, requestNetwork, clock, locals>>

\* The caller takes the returned object; the builder keeps nothing of it
Return ==
    /\ call.op # "idle"
    /\ call' = Idle
    /\ locals' = Idle
    /\ result' = NoResult
    /\ UNCHANGED <<network, node, requestNetwork, clock>>

Next ==
    \/ SetNetwork
    \/ PrepareTransfer
    \/ PrepareApostilleTransfer
    \/ ConstructAggregate
    \/ ConstructAggregateModifications
    \/ PrepareNamespace
    \/ PrepareMosaicDefinition
    \/ PrepareMosaicSupply
    \/ PrepareImportanceTransfer
    \/ PrepareSignature
    \/ CalculateMosaicsFee
    \/ SerializeAndAnnounceTransaction
    \/ Return

Spec == Init /\ [][Next]_vars

(***************************************************************************)
(* Properties.                                                             *)
(***************************************************************************)
\* A builder has returned a transaction object
Returned ==
    call.op \notin {"idle", "calculateMosaicsFee", "serializeAndAnnounceTransaction"}
Wrapped == Returned /\ result.type = MultisigTransaction

\* The entity a call built: the returned object, or what its wrapper holds
Entity == IF result.type = MultisigTransaction THEN result.otherTrans ELSE result

\* Every header of the returned object
Headers == IF Wrapped THEN {result, result.otherTrans} ELSE {result}

TransferCall == call.op = "prepareTransfer"
TransferLikeCall == call.op \in {"prepareTransfer", "prepareApostilleTransfer"}
AggregateCall == call.op \in {"_constructAggregate", "_constructAggregateModifications"}

\* The attachment list of a prepareTransfer call names a mosaic that the
\* registry of the call does not hold
UnknownAttached ==
    /\ TransferCall
    /\ Truthy(call.tx.mosaics)
    /\ \E i \in 1..Len(call.tx.mosaics.val) :
          mosaicIdToName(call.tx.mosaics.val[i].mosaicId)
              \notin DOMAIN call.mosaicsMetaData

\* C1: a prepareTransfer whose attachment list names an unknown mosaic
\* returns no transaction object, neither a transfer nor a wrapper.
C1_UnknownAssetAborts ==
    UnknownAttached => result.type \notin {Transfer, MultisigTransaction}

\* C2: over an attachment list that names an unknown mosaic, wherever it
\* stands, calculateMosaicsFee returns the failure value -1: no fee (a fee is
\* at least 1), not 0 and not the sum of the attachments before it.
C2_UnknownAssetFeeFails ==
    UnknownAttached => locals.mosaicsFee = Some(-1)

C2_Witness ==
    /\ UnknownAttached
    /\ Len(call.tx.mosaics.val) = 2
    /\ mosaicIdToName(call.tx.mosaics.val[1].mosaicId) \in DOMAIN call.mosaicsMetaData
    /\ locals.mosaicsFee.val = -1

\* C3: the header of a wrapper and the header of the entity it wraps carry
\* the same timeStamp and the same deadline.
C3_OneTimestampSnapshot ==
    Wrapped => /\ result.timeStamp = result.otherTrans.timeStamp
               /\ result.deadline = result.otherTrans.deadline

Modifications == Entity.modifications

\* a <= b on addresses, by code units
AddressLeq(a, b) == ~StringLess(b, a)

\* C4: the modifications list of a ModifyMultisig entity built from two or
\* more modifications is sorted: adjacent entries are in increasing
\* modificationType or, of one type, in non-decreasing address.
C4_ModificationsSorted ==
    (AggregateCall /\ Len(call.signatoryArray) >= 2) =>
        \A i \in 1..(Len(Modifications) - 1) :
            \/ Modifications[i].modificationType < Modifications[i + 1].modificationType
            \/ /\ Modifications[i].modificationType = Modifications[i + 1].modificationType
               /\ AddressLeq(toAddress(Modifications[i].cosignatoryAccount, network),
                             toAddress(Modifications[i + 1].cosignatoryAccount, network))

C4_Witness ==
    /\ call.op = "_constructAggregateModifications"
    /\ Len(call.signatoryArray) = 3
    /\ call.signatoryArray[1].type = 2
    /\ call.signatoryArray[2] = [type |-> 1, pubKey |-> "pkC"]
    /\ call.signatoryArray[3] = [type |-> 1, pubKey |-> "pkA"]
    /\ Modifications[1].cosignatoryAccount = "pkA"
    /\ Modifications[2].cosignatoryAccount = "pkC"
    /\ Modifications[3].modificationType = 2

\* The rearrangements of a sequence
PermutationsOf(s) ==
    {[i \in 1..Len(s) |-> s[p[i]]] : p \in Permutations(1..Len(s))}

DistinctKeys(s) ==
    \A i, j \in 1..Len(s) : i # j => s[i].pubKey # s[j].pubKey

\* The modifications list the call of the state would build from signatoryArray
ModificationsFrom(signatoryArray) ==
    IF call.op = "_constructAggregate"
    THEN _constructAggregate(network, call.tx, signatoryArray, 0).modifications
    ELSE _constructAggregateModifications(network, call.senderPublicKey, call.tx,
             signatoryArray, 0, 0).otherTrans.modifications

\* C5: a signatoryArray of distinct keys and every rearrangement of it give
\* the same modifications list.
C5_OrderIndependent ==
    (AggregateCall /\ DistinctKeys(call.signatoryArray)) =>
        \A q \in PermutationsOf(call.signatoryArray) :
            ModificationsFrom(q) = Modifications

C5_Witness ==
    /\ call.op = "_constructAggregateModifications"
    /\ call.signatoryArray = <<[type |-> 1, pubKey |-> "pkC"],
                               [type |-> 1, pubKey |-> "pkA"],
                               [type |-> 1, pubKey |-> "pkD"]>>
    /\ Modifications = <<[modificationType |-> 1, cosignatoryAccount |-> "pkD"],
                         [modificationType |-> 1, cosignatoryAccount |-> "pkA"],
                         [modificationType |-> 1, cosignatoryAccount |-> "pkC"]>>

\* C6: in every header of a returned object the deadline is the timeStamp
\* plus 60 minutes on the test network and plus 1440 minutes on any other,
\* so it is later than the timeStamp.
C6_DeadlineFromDue ==
    Returned =>
        \A h \in Headers :
            /\ h.deadline - h.timeStamp = IF network = Testnet THEN 3600 ELSE 86400
            /\ h.deadline > h.timeStamp

C6_Witness ==
    /\ Wrapped
    /\ network = Testnet
    /\ result.otherTrans.timeStamp = 0
    /\ result.otherTrans.deadline = 3600
    /\ result.timeStamp = 1
    /\ result.deadline = 3601

\* 0x68, 0x98, 0x60
VersionPrefix == IF network = Mainnet THEN 104
                 ELSE IF network = Testnet THEN 152 ELSE 96

\* The schema version the call of the state hands to CREATE_DATA for its entity
SchemaVersion ==
    CASE call.op = "prepareTransfer" ->
             IF Truthy(call.tx.mosaics) THEN 2 ELSE 1
      [] call.op = "_constructAggregate" -> 2
      [] call.op = "_constructAggregateModifications" ->
             IF call.tx.minCosigs.isNull \/ call.tx.minCosigs.val = 0 THEN 1 ELSE 2
      [] OTHER -> 1

\* C7: CURRENT_NETWORK_VERSION(val), val 1 or 2, is the 32-bit word whose
\* high byte is 0x68, 0x98 or 0x60 for the main, the test or another network
\* and whose low 24 bits are val; the version of every header is such a
\* word, with the schema version its builder supplied.
C7_VersionWord ==
    /\ \A val \in {1, 2} :
          /\ HighByte(CURRENT_NETWORK_VERSION(network, val)) = VersionPrefix
          /\ Low24(CURRENT_NETWORK_VERSION(network, val)) = val
    /\ Returned =>
          /\ \A h \in Headers :
                HighByte(h.version) = VersionPrefix /\ Low24(h.version) \in {1, 2}
          /\ Low24(Entity.version) = SchemaVersion
          /\ Wrapped => Low24(result.version) = 1

C7_Witness ==
    /\ TransferCall
    /\ Wrapped
    /\ network = Testnet
    /\ Truthy(call.tx.mosaics)
    /\ HighByte(Entity.version) = 152
    /\ Low24(Entity.version) = 2
    /\ Entity.version < 0

\* tx.mosaics holds at least one attachment
AttachmentsPresent ==
    /\ TransferCall
    /\ Truthy(call.tx.mosaics)
    /\ Len(call.tx.mosaics.val) >= 1

\* C8: a Transfer has schema version 2 exactly when it carries at least one
\* attachment (version 1 for a null or an empty list), and an apostille
\* transfer has schema version 1.
C8_VersionTwoIffAttachments ==
    TransferLikeCall =>
        Low24(Entity.version) = IF AttachmentsPresent THEN 2 ELSE 1

\* The message fee of the specification for a payload of len hex characters
SpecMessageFee(len) == IF len = 0 THEN 0 ELSE Max(1, (len \div 64) + 1)

\* The minimum fee of an amount that holds q times 10000 units: q, from 1
\* to 25
SpecMinimumFee(q) == Min(25, Max(1, q))

C10_MessageFee ==
    TransferLikeCall =>
        LET len == Entity.message.payload.length
        IN  /\ locals.msgFee = SpecMessageFee(len)
            /\ (locals.msgFee = 0) <=> (len = 0)
            /\ len > 0 => locals.msgFee >= 1
            /\ \A shorter \in 0..len : MsgFee(shorter) <= locals.msgFee

C10_Witness ==
    /\ TransferCall
    /\ Entity.message.payload.length = 128
    /\ locals.msgFee = 3

FeeCall == call.op = "calculateMosaicsFee"

\* Every attachment of the list is in the registry
AllKnown(mosaics, attachedMosaics) ==
    \A i \in 1..Len(attachedMosaics) :
        mosaicIdToName(attachedMosaics[i].mosaicId) \in DOMAIN mosaics

\* C11: over an attachment list of known mosaics, the empty list included,
\* calculateMosaicsFee returns an integer that is at least 1 and at least
\* the number of attachments, called on its own or by prepareTransfer.
C11_FeeAtLeastOnePerAttachment ==
    /\ (FeeCall /\ AllKnown(call.mosaics, call.attachedMosaics)) =>
          /\ result.value \in Int
          /\ result.value >= 1
          /\ result.value >= Len(call.attachedMosaics)
    /\ (TransferCall /\ Truthy(call.tx.mosaics) /\ ~UnknownAttached) =>
          /\ locals.mosaicsFee.val \in Int
          /\ locals.mosaicsFee.val >= 1
          /\ locals.mosaicsFee.val >= Len(call.tx.mosaics.val)

C11_Witness ==
    /\ FeeCall
    /\ Len(call.attachedMosaics) = 2
    /\ mosaicIdToName(call.attachedMosaics[1].mosaicId) = "nil:tok"
    /\ mosaicIdToName(call.attachedMosaics[2].mosaicId) = "biz:coin"
    /\ result.value = 2

\* A small-business mosaic: supply <= 10000 and divisibility 0
SmallBusiness(mosaics, m) ==
    LET pair == mosaics[mosaicIdToName(m.mosaicId)]
    IN  /\ BigCmp(pair.supply, BigOfInt(SmallBusinessSupply)) <= 0
        /\ DivisibilityOf(pair) = 0

\* What pass i of the loop added to totalFee
Contribution(i) ==
    locals.passes[i][1] - (IF i = 1 THEN 0 ELSE locals.passes[i - 1][1])

\* C12: every small-business attachment adds exactly 1 to the total,
\* whatever its quantity, its place in the list and the attachments before it.
C12_SmallBusinessAddsOne ==
    FeeCall =>
        \A i \in 1..Len(locals.passes) :
            SmallBusiness(call.mosaics, call.attachedMosaics[i]) =>
                Contribution(i) = 1

\* What an attachment contributes by its own mosaic alone: 1 for a small
\* business mosaic, else max(1, rawFee - supplyAdjustment) of its own supply,
\* divisibility and quantity
OwnContribution(multiplier, mosaics, m) ==
    MosaicStep(multiplier, mosaics, m, <<0, 0, 0>>)[1]

RECURSIVE SumOfOwnContributions(_, _, _, _)
SumOfOwnContributions(multiplier, mosaics, attachedMosaics, i) ==
    IF i > Len(attachedMosaics) THEN 0
    ELSE OwnContribution(multiplier, mosaics, attachedMosaics[i])
         + SumOfOwnContributions(multiplier, mosaics, attachedMosaics, i + 1)

\* C13: over a list of known attachments calculateMosaicsFee returns
\* max(1, sum of the attachments' own contributions), the same for every
\* ordering of the list.
C13_SumOfOwnContributions ==
    (FeeCall /\ AllKnown(call.mosaics, call.attachedMosaics)) =>
        /\ result.value =
              Max(1, SumOfOwnContributions(call.multiplier, call.mosaics,
                                           call.attachedMosaics, 1))
        /\ \A q \in PermutationsOf(call.attachedMosaics) :
              calculateMosaicsFee(call.multiplier, call.mosaics, q) = result.value

\* The prepare operations that read tx.isMultisig, and the type of the
\* entity each builds
FlaggedCall ==
    call.op \in {"prepareTransfer", "prepareApostilleTransfer", "prepareNamespace",
                 "prepareMosaicDefinition", "prepareMosaicSupply",
                 "prepareImportanceTransfer"}

EntityTypeOf(op) ==
    CASE op \in {"prepareTransfer", "prepareApostilleTransfer"} -> Transfer
      [] op = "prepareNamespace" -> ProvisionNamespace
      [] op = "prepareMosaicDefinition" -> MosaicDefinition
      [] op = "prepareMosaicSupply" -> MosaicSupply
      [] op = "prepareImportanceTransfer" -> ImportanceTransfer

\* C14: with tx.isMultisig set a prepare operation returns a wrapper of type
\* MultisigTransaction, signed by the caller's own key, of fee 6000000, whose
\* otherTrans is the entity signed by the multisig account; without the flag
\* it returns the entity itself, signed by the caller's own key.  No
\* otherTrans is a wrapper.
C14_WrapperOutermost ==
    /\ FlaggedCall =>
          IF call.tx.isMultisig
          THEN /\ result.type = MultisigTransaction
               /\ result.signer = PublicKeyOf(call.common.privateKey)
               /\ result.fee = 6000000
               /\ result.otherTrans.type = EntityTypeOf(call.op)
               /\ result.otherTrans.signer = call.tx.multisigAccount.publicKey
               /\ "otherTrans" \notin DOMAIN result.otherTrans
          ELSE /\ result.type = EntityTypeOf(call.op)
               /\ result.signer = PublicKeyOf(call.common.privateKey)
               /\ "otherTrans" \notin DOMAIN result
    /\ Wrapped => result.otherTrans.type # MultisigTransaction

C14_Witness ==
    /\ call.op = "prepareMosaicSupply"
    /\ call.tx.isMultisig
    /\ call.common.privateKey = "skB"
    /\ result.type = MultisigTransaction
    /\ result.signer = "pkB"
    /\ result.fee = 6000000
    /\ result.otherTrans.type = MosaicSupply
    /\ result.otherTrans.signer = "pkM"

\* tx.minCosigs is neither null nor 0
MinCosigsChange == ~call.tx.minCosigs.isNull /\ call.tx.minCosigs.val # 0

\* C15 as stated: the fee of a ModifyMultisig entity of n modifications is
\* (10 + 6 n) * 1000000 when tx.minCosigs is null or 0 and
\* (10 + 6 n + 6) * 1000000 otherwise, in both builders, and the entity has
\* a minCosignatories field exactly when the increment is charged.
C15_FeeByMinCosigs ==
    AggregateCall =>
        LET n == Len(call.signatoryArray)
        IN  /\ Entity.fee = (10 + 6 * n + (IF MinCosigsChange THEN 6 ELSE 0)) * 1000000
            /\ ("minCosignatories" \in DOMAIN Entity) <=> MinCosigsChange

\* C15, amended: the fee is (10 + 6 n + 6) * 1000000 when the entity carries
\* a minCosignatories field and (10 + 6 n) * 1000000 when it does not;
\* _constructAggregateModifications includes the field exactly when
\* tx.minCosigs is neither null nor 0, _constructAggregate always, with
\* relativeChange = tx.minCosigs.
C15_FeeByMinCosignatoriesField ==
    AggregateCall =>
        LET n == Len(call.signatoryArray)
            carried == "minCosignatories" \in DOMAIN Entity
        IN  /\ Entity.type = MultisigModification
            /\ Len(Entity.modifications) = n
            /\ Entity.fee = (10 + 6 * n + (IF carried THEN 6 ELSE 0)) * 1000000
            /\ carried <=> (call.op = "_constructAggregate" \/ MinCosigsChange)
            /\ carried => Entity.minCosignatories.relativeChange = call.tx.minCosigs

C15_Witness ==
    /\ call.op = "_constructAggregateModifications"
    /\ Len(call.signatoryArray) = 2
    /\ call.tx.minCosigs = Some(1)
    /\ Entity.fee = 28000000
    /\ Entity.minCosignatories.relativeChange = Some(1)

\* signatoryArray holds the same public key twice
DuplicateKeys(signatoryArray) == ~DistinctKeys(signatoryArray)

\* The types of the objects the builders return
TransactionObjectTypes ==
    {Transfer, ImportanceTransfer, MultisigModification, MultisigSignature,
     MultisigTransaction, ProvisionNamespace, MosaicDefinition, MosaicSupply}

\* C16: a signatoryArray with two entries of equal pubKey makes
\* _constructAggregate and _constructAggregateModifications fail: they return
\* no transaction object.
C16_DuplicateKeysFail ==
    (AggregateCall /\ DuplicateKeys(call.signatoryArray)) =>
        result.type \notin TransactionObjectTypes

\* C17: prepareNamespace with an empty namespaceName and
\* prepareMosaicDefinition with an empty mosaicName return no transaction
\* object, neither plain nor wrapped.
C17_EmptyNameFails ==
    /\ (call.op = "prepareNamespace" /\ call.tx.namespaceName = "") =>
          result.type \notin TransactionObjectTypes
    /\ (call.op = "prepareMosaicDefinition" /\ call.tx.mosaicName = "") =>
          result.type \notin TransactionObjectTypes

\* The values the time source gave the call of the state: to the entity and
\* to the outermost header
EntityReading == Entity.timeStamp
OuterReading == result.timeStamp

\* What the operation of the state returns for the inputs of its call, the
\* wallet's network and these two readings, built anew
Rebuilt ==
    CASE call.op = "prepareTransfer" ->
             prepareTransfer(network, call.common, call.tx, call.mosaicsMetaData,
                             EntityReading, OuterReading)
      [] call.op = "prepareApostilleTransfer" ->
             prepareApostilleTransfer(network, call.common, call.tx,
                                      EntityReading, OuterReading)
      [] call.op = "_constructAggregate" ->
             _constructAggregate(network, call.tx, call.signatoryArray, EntityReading)
      [] call.op = "_constructAggregateModifications" ->
             _constructAggregateModifications(network, call.senderPublicKey, call.tx,
                 call.signatoryArray, EntityReading, OuterReading)
      [] call.op = "prepareNamespace" ->
             prepareNamespace(network, call.common, call.tx, EntityReading, OuterReading)
      [] call.op = "prepareMosaicDefinition" ->
             prepareMosaicDefinition(network, call.common, call.tx,
                                     EntityReading, OuterReading)
      [] call.op = "prepareMosaicSupply" ->
             prepareMosaicSupply(network, call.common, call.tx,
                                 EntityReading, OuterReading)
      [] call.op = "prepareImportanceTransfer" ->
             prepareImportanceTransfer(network, call.common, call.tx,
                                       EntityReading, OuterReading)
      [] call.op = "prepareSignature" ->
             prepareSignature(network, call.common, call.tx, EntityReading)

C19_FeeAtLeastOne ==
    Returned => \A h \in Headers : h.fee >= 1

Arguments == [f \in DOMAIN call \ {"op"} |-> call[f]]

\* An entity with another account as its signer (a mosaic definition names
\* its signer as the creator too)
SignedBy(entity, publicKey) ==
    IF "mosaicDefinition" \in DOMAIN entity
    THEN [entity EXCEPT !.signer = publicKey,
                        !.mosaicDefinition.creator = publicKey]
    ELSE [entity EXCEPT !.signer = publicKey]

\* What the prepare operation of the state returns for the same tx without
\* the isMultisig flag: the entity alone
Unflagged ==
    LET tx == [call.tx EXCEPT !.isMultisig = FALSE]
    IN  CASE call.op = "prepareTransfer" ->
                 prepareTransfer(network, call.common, tx, call.mosaicsMetaData,
                                 EntityReading, EntityReading)
          [] call.op = "prepareApostilleTransfer" ->
                 prepareApostilleTransfer(network, call.common, tx,
                                          EntityReading, EntityReading)
          [] call.op = "prepareNamespace" ->
                 prepareNamespace(network, call.common, tx,
                                  EntityReading, EntityReading)
          [] call.op = "prepareMosaicDefinition" ->
                 prepareMosaicDefinition(network, call.common, tx,
                                         EntityReading, EntityReading)
          [] call.op = "prepareMosaicSupply" ->
                 prepareMosaicSupply(network, call.common, tx,
                                     EntityReading, EntityReading)
          [] call.op = "prepareImportanceTransfer" ->
                 prepareImportanceTransfer(network, call.common, tx,
                                           EntityReading, EntityReading)

\* The otherTrans of the wrapper of the state is the entity as it was built
InnerAsBuilt ==
    IF FlaggedCall
    THEN result.otherTrans = SignedBy(Unflagged, call.tx.multisigAccount.publicKey)
    ELSE /\ call.op = "_constructAggregateModifications"
         /\ result.otherTrans.type = MultisigModification
         /\ result.otherTrans.signer = call.tx.multisigPubKey
         /\ result.otherTrans.version =
               CURRENT_NETWORK_VERSION(network, IF MinCosigsChange THEN 2 ELSE 1)
         /\ result.otherTrans.deadline = Deadline(EntityReading, Due(network))
         /\ result.otherTrans.fee # WrapperFee
         /\ "otherTrans" \notin DOMAIN result.otherTrans
         /\ Len(result.otherTrans.modifications) = Len(call.signatoryArray)

C21_WrappedTransferWitness ==
    /\ call.op = "prepareTransfer"
    /\ Wrapped
    /\ Truthy(call.tx.mosaics)
    /\ locals.inputs.tx.mosaics = call.tx.mosaics
    /\ result.otherTrans.signer = "pkM"
    /\ result.timeStamp > result.otherTrans.timeStamp

\* How many entries of signatoryArray are the pair (type, pubKey), and how
\* many entries of a modifications list carry it
OccurrencesIn(signatoryArray, type, pubKey) ==
    Cardinality({i \in 1..Len(signatoryArray) :
                    /\ signatoryArray[i].type = type
                    /\ signatoryArray[i].pubKey = pubKey})

OccurrencesOut(modifications, type, pubKey) ==
    Cardinality({i \in 1..Len(modifications) :
                    /\ modifications[i].modificationType = type
                    /\ modifications[i].cosignatoryAccount = pubKey})

\* C22: the modifications list of _constructAggregateModifications has the
\* length of signatoryArray and holds every (type, pubKey) pair as many
\* times as signatoryArray does: sorting loses and invents nothing.
C22_SortKeepsEveryEntry ==
    call.op = "_constructAggregateModifications" =>
        /\ Len(Modifications) = Len(call.signatoryArray)
        /\ \A i \in 1..Len(Modifications) :
              DOMAIN Modifications[i] = {"modificationType", "cosignatoryAccount"}
        /\ \A type \in {1, 2}, pubKey \in CosignatoryKeys :
              OccurrencesOut(Modifications, type, pubKey)
                  = OccurrencesIn(call.signatoryArray, type, pubKey)
        /\ \A i \in 1..Len(Modifications) :
              /\ Modifications[i].modificationType \in {1, 2}
              /\ Modifications[i].cosignatoryAccount \in CosignatoryKeys

C22_Witness ==
    /\ call.op = "_constructAggregateModifications"
    /\ Len(call.signatoryArray) = 3
    /\ call.signatoryArray[1] = [type |-> 2, pubKey |-> "pkC"]
    /\ call.signatoryArray[2] = [type |-> 1, pubKey |-> "pkD"]
    /\ call.signatoryArray[3] = [type |-> 2, pubKey |-> "pkC"]
    /\ Len(Modifications) = 3
    /\ Modifications[1].cosignatoryAccount = "pkD"
    /\ OccurrencesOut(Modifications, 2, "pkC") = 2

\* The network a version tag was made for by CURRENT_NETWORK_VERSION
NetworkOfVersion(version) ==
    CHOOSE n \in NetworkIds :
        \E val \in {1, 2} : CURRENT_NETWORK_VERSION(n, val) = version

\* A request to announce has been made: by serializeAndAnnounceTransaction
\* for an entity built on the wallet's network, or by prepareSignature
Announced == call.op \in {"serializeAndAnnounceTransaction", "prepareSignature"}
AnnouncedEntity ==
    IF call.op = "prepareSignature" THEN result ELSE call.entity
AnnounceRequest ==
    IF call.op = "prepareSignature" THEN locals.request ELSE result

\* C23: the builder and the request layer agree on the network.  Whatever
\* was assigned to the Transactions instance's wallet.network, an entity
\* built and then announced goes to the port of the network it was built
\* for: the Mijin port if and only if the builder's wallet.network, the
\* network of the entity's version, is Mijin; the network getPort reads is
\* the one CURRENT_NETWORK_VERSION reads.
C23_AnnouncedOnTheBuildersNetwork ==
    Announced =>
        /\ NetworkOfVersion(AnnouncedEntity.version) = network
        /\ AnnounceRequest.url.port = DefaultMijinPort <=> network = Mijin
        /\ AnnounceRequest.url.port = getPort(NetworkOfVersion(AnnouncedEntity.version))
        /\ requestNetwork = network

=============================================================================
